---- MODULE Spec2Model ----
(***************************************************************************)
(* A model of src/app.py: the session history store (session_histories,    *)
(* guarded by the non-reentrant history_lock), the three routes            *)
(* /create-session, /clear-backend-history and /chat, and the streaming    *)
(* generator generate_chat_stream_with_session.                            *)
(*                                                                         *)
(* Text is a sequence of tokens, so that concatenation and strip() are     *)
(* computed.  A JSON value of the request body is a record [t, s]: t is    *)
(* its Python type after request.json, s its text when it is a str.        *)
(***************************************************************************)
EXTENDS Integers, Sequences, FiniteSets, TLC

\* ------------------------------------------------------------------ bounds
\* Request threads of the (threaded) server.
Workers == {"w1", "w2"}
\* Requests accepted in one behaviour.
MaxRequests == 3
\* Session ids: what uuid4 may return and what a client may send.
SessionIds == {<<"s1">>, <<"s2">>}

\* ------------------------------------------------------------ Python values
PyNone == [t |-> "none", s |-> <<>>]
PyNum == [t |-> "num", s |-> <<>>]
PyStr(x) == [t |-> "str", s |-> x]
\* The key is not in the JSON object.
Missing == [t |-> "missing", s |-> <<>>]

\* dict.get(key, default)
Get(v, default) == IF v = Missing THEN default ELSE v

\* Truthiness, as `not x` and `if x:` compute it for None, str and numbers.
Truthy(v) == \/ v.t = "num"
             \/ v.t = "str" /\ v.s # <<>>

RECURSIVE LStrip(_)
LStrip(x) == IF x # <<>> /\ Head(x) = " " THEN LStrip(Tail(x)) ELSE x

RECURSIVE RStrip(_)
RStrip(x) == IF x # <<>> /\ x[Len(x)] = " " THEN RStrip(SubSeq(x, 1, Len(x) - 1)) ELSE x

\* str.strip()
Strip(x) == RStrip(LStrip(x))

\* payload.get('system_prompt', "").strip() raises AttributeError on a value
\* that is not a str.
StripRaises(v) == Get(v, PyStr(<<>>)).t # "str"

Digits == {"0", "1", "7"}

\* float(payload.get('temperature', 0.7)) raises TypeError on None and
\* ValueError on a str that is no number.
FloatRaises(v) ==
    LET x == Get(v, PyNum)
    IN  \/ x.t = "none"
        \/ x.t = "str" /\ (Strip(x.s) = <<>> \/ \E i \in 1..Len(Strip(x.s)) : Strip(x.s)[i] \notin Digits)

\* ---------------------------------------------------------------- messages
SYSTEM == "system"
USER == "user"
ASSISTANT == "assistant"

Msg(role, content) == [role |-> role, content |-> content]

\* not (not h or h[0].get("role") != MessageRole.SYSTEM)
HasSystemHead(h) == h # <<>> /\ h[1].role = SYSTEM

\* The list current_history_dicts after lines 95-105.  list(...) copies the
\* list but not the dicts in it, so the assignment of line 105 is also seen
\* through session_histories[session_id].
current_history_dicts(h, sp) ==
    IF sp # <<>> /\ HasSystemHead(h) /\ h[1].content # sp
    THEN [h EXCEPT ![1].content = sp]
    ELSE h

\* messages_for_llm after lines 100-106, before the conversion loop.
system_prefix(h, sp) ==
    IF sp # <<>> /\ (~HasSystemHead(h) \/ h[1].content # sp)
    THEN <<Msg(SYSTEM, sp)>>
    ELSE <<>>

\* A conversion that does not skip the stored system message.
convert_history_keeps_system(cur, out, i) ==
    out \o [k \in 1..(Len(cur) - i + 1) |-> Msg(cur[k + i - 1].role, cur[k + i - 1].content)]

\* The loop of lines 110-114 over cur from index i, appending to out.
RECURSIVE convert_history(_, _, _)
convert_history(cur, out, i) ==
    IF i > Len(cur) THEN out
    ELSE IF cur[i].role = SYSTEM /\ out # <<>> /\ out[1].role = SYSTEM
         THEN convert_history(cur, out, i + 1)
         ELSE convert_history(cur, Append(out, Msg(cur[i].role, cur[i].content)), i + 1)

\* An assembly that sends no stored message once it placed a system message.
messages_for_llm_without_history(h, sp, up) ==
    IF system_prefix(h, sp) # <<>>
    THEN Append(system_prefix(h, sp), Msg(USER, up))
    ELSE Append(h, Msg(USER, up))

\* The list handed to llm.stream_chat (lines 92-118).
messages_for_llm(h, sp, up) ==
    Append(convert_history(current_history_dicts(h, sp), system_prefix(h, sp), 1),
           Msg(USER, up))

\* A commit that inserts the system message without looking at the head.
upsert_system_always_inserts(h, sp) ==
    IF sp = <<>> THEN h ELSE <<Msg(SYSTEM, sp)>> \o h

\* A commit that inserts the changed system message instead of replacing.
upsert_system_inserts_changed(h, sp) ==
    IF sp = <<>> THEN h
    ELSE IF ~HasSystemHead(h) \/ h[1].content # sp THEN <<Msg(SYSTEM, sp)>> \o h
    ELSE h

\* Lines 138-142: the system message of the stored history at commit time.
upsert_system(h, sp) ==
    IF sp = <<>> THEN h
    ELSE IF ~HasSystemHead(h) THEN <<Msg(SYSTEM, sp)>> \o h
    ELSE IF h[1].content # sp THEN [h EXCEPT ![1].content = sp]
    ELSE h

\* A commit that stores the response without the prompt it answers.
commit_exchange_drops_user(h, sp, up, full) ==
    Append(upsert_system(h, sp), Msg(ASSISTANT, full))

\* Lines 138-146: the stored history after the commit.
commit_exchange(h, sp, up, full) ==
    upsert_system(h, sp) \o <<Msg(USER, up), Msg(ASSISTANT, full)>>

\* ------------------------------------------------------------------ events
\* The dict each yield serialises (json.dumps keeps key, text and flag).
Event(key, text, final) == [key |-> key, text |-> text, is_final |-> final]

ErrSession == <<"session_id is required for backend history">>
ErrPrompt == <<"Prompt is required">>
ErrKey == <<"GROQ_API_KEY not configured on server.">>
ErrLLM == <<"LLM Error">>

\* An accumulation that puts the new chunk in front.
accumulate_in_front(full, d) == IF d # <<>> THEN d \o full ELSE full

\* Lines 127-128: the accumulated response after one chunk.
accumulate(full, d) == IF d # <<>> THEN full \o d ELSE full

\* A generator that yields an event for a chunk without text too.
chunk_events_for_every_chunk(d) == <<Event("text_chunk", d, FALSE)>>

\* Lines 127-129: what one chunk makes the generator yield.
chunk_events(d) == IF d # <<>> THEN <<Event("text_chunk", d, FALSE)>> ELSE <<>>

\* ------------------------------------------------------------------- state
VARIABLES
    session_histories,      \* line 19: session id -> list of message dicts
    history_lock,           \* line 20: Free, or the worker holding the Lock
    GROQ_API_KEY,           \* whether the environment sets the credential
    accepted,               \* requests accepted so far
    pc,                     \* where each worker is in its handler
    kind,                   \* which route the worker serves
    session_id,             \* the handler's session_id
    payload_prompt,         \* line 67: payload.get('prompt'), once read
    user_prompt_text,       \* line 67, once validated
    system_prompt_text,     \* line 68
    sent,                   \* the list given to llm.stream_chat (line 122)
    deltas,                 \* r_chunk.delta of every chunk received so far
    full_response_content,  \* line 124
    events,                 \* what the generator has yielded
    response,               \* the route's JSON response
    history_before,         \* the stored history the snapshot of line 95 read
    interference,           \* what other requests did to the session since
    commits                 \* times the request wrote lines 145-146

vars == <<session_histories, history_lock, GROQ_API_KEY, accepted, pc, kind,
          session_id, payload_prompt, user_prompt_text, system_prompt_text, sent, deltas,
          full_response_content, events, response, history_before,
          interference, commits>>

\* Locals of the generator other than the ones an action names.
chat_locals == <<payload_prompt, user_prompt_text, system_prompt_text, sent,
                 deltas, full_response_content>>
tracking == <<history_before, interference, commits>>

Free == "free"
NoResponse == [status |-> "none", code |-> 0]
Success == [status |-> "success", code |-> 200]

\* The values a client may put under a key of the JSON body.
SessionIdValues == {Missing, PyNone, PyStr(<<>>)} \cup {PyStr(i) : i \in SessionIds}
PromptValues == {Missing, PyStr(<<>>), PyStr(<<"hi">>)}
SystemPromptValues == {Missing, PyNone, PyStr(<<" ">>), PyStr(<<"A">>), PyStr(<<" ", "B", " ">>)}
TemperatureValues == {Missing, PyNone, PyStr(<<"1">>), PyStr(<<"a">>)}
\* r_chunk.delta of the chunks the collaborator streams, in order; the stream
\* ends after the last of them, or raises before any of them or after it.
\* <<>> is a chunk without text (None and "" alike fail `if delta_content:`).
Chunks == << <<"Hel">>, <<>>, <<"lo">> >>

\* session_histories.get(sid, [])
history_of(sid) == IF sid \in DOMAIN session_histories THEN session_histories[sid] ELSE <<>>

\* session_histories[sid] = h
store_put(sid, h) ==
    [k \in DOMAIN session_histories \cup {sid} |-> IF k = sid THEN h ELSE session_histories[k]]

\* What a write (a clear, or any other change) to session sid by worker w
\* means to the other requests that took their snapshot of sid and have not
\* ended.
Interfere(sid, w, what) ==
    [v \in Workers |->
        IF v # w /\ sent[v] # <<>> /\ session_id[v].s = sid
        THEN IF what = "clear" THEN "cleared"
             ELSE IF interference[v] \in {"cleared", "cleared_then_other"}
                  THEN "cleared_then_other" ELSE "other"
        ELSE interference[v]]

Init ==
    /\ session_histories = [k \in {} |-> <<>>]
    /\ history_lock = Free
    /\ GROQ_API_KEY \in BOOLEAN
    /\ accepted = 0
    /\ pc = [w \in Workers |-> "idle"]
    /\ kind = [w \in Workers |-> "none"]
    /\ session_id = [w \in Workers |-> PyNone]
    /\ payload_prompt = [w \in Workers |-> PyNone]
    /\ user_prompt_text = [w \in Workers |-> <<>>]
    /\ system_prompt_text = [w \in Workers |-> <<>>]
    /\ sent = [w \in Workers |-> <<>>]
    /\ deltas = [w \in Workers |-> <<>>]
    /\ full_response_content = [w \in Workers |-> <<>>]
    /\ events = [w \in Workers |-> <<>>]
    /\ response = [w \in Workers |-> NoResponse]
    /\ history_before = [w \in Workers |-> <<>>]
    /\ interference = [w \in Workers |-> "none"]
    /\ commits = [w \in Workers |-> 0]

\* ----------------------------------------------------------------- actions
\* Lines 34-37: /create-session draws a uuid4 and calls
\* initialize_session_history.
create_session_route(w) ==
    /\ pc[w] = "idle"
    /\ accepted < MaxRequests
    /\ \E id \in SessionIds :
        /\ id \notin DOMAIN session_histories
        /\ \A v \in Workers : pc[v] = "idle" \/ session_id[v] # PyStr(id)
        /\ session_id' = [session_id EXCEPT ![w] = PyStr(id)]
    /\ accepted' = accepted + 1
    /\ kind' = [kind EXCEPT ![w] = "create"]
    /\ pc' = [pc EXCEPT ![w] = "init"]
    /\ UNCHANGED <<session_histories, history_lock, GROQ_API_KEY, chat_locals,
                   events, response, tracking>>

\* Lines 163-181: /chat calls initialize_session_history for a truthy
\* session_id, then hands the generator to the Response.
chat_route_post(w) ==
    /\ pc[w] = "idle"
    /\ accepted < MaxRequests
    /\ \E sid \in SessionIdValues :
        /\ session_id' = [session_id EXCEPT ![w] = Get(sid, PyNone)]
        /\ pc' = [pc EXCEPT ![w] = IF Truthy(Get(sid, PyNone)) THEN "init" ELSE "gen"]
    /\ accepted' = accepted + 1
    /\ kind' = [kind EXCEPT ![w] = "chat"]
    /\ UNCHANGED <<session_histories, history_lock, GROQ_API_KEY, chat_locals,
                   events, response, tracking>>

\* Lines 22-27, and the return to the caller.  `with history_lock:` takes the
\* Lock only when no thread holds it, the calling thread included.
initialize_session_history(w) ==
    /\ pc[w] \in {"init", "init_in_commit"}
    /\ history_lock = Free
    /\ LET sid == session_id[w].s
           h == history_of(sid)
       IN  CASE kind[w] = "create" ->
                  \* lines 38-39
                  /\ session_histories' = store_put(sid, h)
                  /\ response' = [response EXCEPT ![w] = Success]
                  /\ pc' = [pc EXCEPT ![w] = "done"]
                  /\ UNCHANGED <<commits, interference>>
            [] kind[w] = "clear" ->
                  \* line 58 returned: the outer `with` releases a Lock that
                  \* is not held, a RuntimeError, which Flask answers with 500
                  /\ session_histories' = store_put(sid, h)
                  /\ response' = [response EXCEPT ![w] = [status |-> "error", code |-> 500]]
                  /\ pc' = [pc EXCEPT ![w] = "done"]
                  /\ UNCHANGED <<commits, interference>>
            [] kind[w] = "chat" /\ pc[w] = "init" ->
                  \* line 169 returned: line 181
                  /\ session_histories' = store_put(sid, h)
                  /\ UNCHANGED <<response, commits, interference>>
                  /\ pc' = [pc EXCEPT ![w] = "gen"]
            [] kind[w] = "chat" /\ pc[w] = "init_in_commit" ->
                  \* line 135 returned: lines 138-146, then the outer release
                  /\ session_histories' =
                        store_put(sid, commit_exchange(h, system_prompt_text[w],
                                  user_prompt_text[w], full_response_content[w]))
                  /\ commits' = [commits EXCEPT ![w] = @ + 1]
                  /\ interference' = Interfere(sid, w, "write")
                  /\ UNCHANGED response
                  /\ pc' = [pc EXCEPT ![w] = "final"]
    /\ UNCHANGED <<history_lock, GROQ_API_KEY, accepted, kind, session_id,
                   chat_locals, events, history_before>>

\* A clear that keeps the system message of the transcript.
clear_session_keeps_system(sid) ==
    store_put(sid, IF HasSystemHead(session_histories[sid])
                   THEN <<session_histories[sid][1]>> ELSE <<>>)

\* A clear that removes the session from the store.
clear_session_deletes(sid) ==
    [k \in DOMAIN session_histories \ {sid} |-> session_histories[k]]

\* Line 53: session_histories[session_id] = []
clear_session(sid) == store_put(sid, <<>>)

\* Lines 46-62: /clear-backend-history.
clear_backend_history_route(w) ==
    /\ pc[w] = "idle"
    /\ accepted < MaxRequests
    /\ \E sid \in SessionIdValues :
        LET id == Get(sid, PyNone)
        IN  /\ session_id' = [session_id EXCEPT ![w] = id]
            /\ IF ~Truthy(id)
               THEN \* lines 48-49
                    /\ response' = [response EXCEPT ![w] = [status |-> "error", code |-> 400]]
                    /\ pc' = [pc EXCEPT ![w] = "done"]
                    /\ UNCHANGED <<session_histories, history_lock, interference>>
               ELSE \* line 51
                    /\ history_lock = Free
                    /\ IF id.s \in DOMAIN session_histories
                       THEN \* lines 53-55, 62
                            /\ session_histories' = clear_session(id.s)
                            /\ interference' = Interfere(id.s, w, "clear")
                            /\ response' = [response EXCEPT ![w] = Success]
                            /\ pc' = [pc EXCEPT ![w] = "done"]
                            /\ UNCHANGED history_lock
                       ELSE \* line 58, called with the Lock held
                            /\ history_lock' = w
                            /\ pc' = [pc EXCEPT ![w] = "init"]
                            /\ UNCHANGED <<session_histories, response, interference>>
    /\ accepted' = accepted + 1
    /\ kind' = [kind EXCEPT ![w] = "clear"]
    /\ UNCHANGED <<GROQ_API_KEY, chat_locals, events, history_before, commits>>

\* Lines 66-90, from the first next() on the generator: the reads of the
\* payload, the three checks and the construction of the client (which keeps
\* the model name and the key, and calls nothing).  An exception of lines
\* 68-69 is raised outside the try and leaves the generator.
generator_start(w) ==
    /\ pc[w] = "gen"
    /\ \E prompt \in PromptValues, sp \in SystemPromptValues,
          temperature \in TemperatureValues :
        /\ payload_prompt' = [payload_prompt EXCEPT ![w] = Get(prompt, PyNone)]
        /\ IF StripRaises(sp) \/ FloatRaises(temperature)
           THEN /\ pc' = [pc EXCEPT ![w] = "raised"]
                /\ UNCHANGED <<events, user_prompt_text, system_prompt_text>>
           ELSE IF ~Truthy(session_id[w])
           THEN /\ events' = [events EXCEPT ![w] = <<Event("error", ErrSession, TRUE)>>]
                /\ pc' = [pc EXCEPT ![w] = "done"]
                /\ UNCHANGED <<user_prompt_text, system_prompt_text>>
           ELSE IF ~Truthy(Get(prompt, PyNone))
           THEN /\ events' = [events EXCEPT ![w] = <<Event("error", ErrPrompt, TRUE)>>]
                /\ pc' = [pc EXCEPT ![w] = "done"]
                /\ UNCHANGED <<user_prompt_text, system_prompt_text>>
           ELSE IF ~GROQ_API_KEY
           THEN /\ events' = [events EXCEPT ![w] = <<Event("error", ErrKey, TRUE)>>]
                /\ pc' = [pc EXCEPT ![w] = "done"]
                /\ UNCHANGED <<user_prompt_text, system_prompt_text>>
           ELSE /\ user_prompt_text' = [user_prompt_text EXCEPT ![w] = prompt.s]
                /\ system_prompt_text' =
                       [system_prompt_text EXCEPT ![w] = Strip(Get(sp, PyStr(<<>>)).s)]
                /\ pc' = [pc EXCEPT ![w] = "assemble"]
                /\ UNCHANGED events
    /\ UNCHANGED <<session_histories, history_lock, GROQ_API_KEY, accepted, kind,
                   session_id, sent, deltas, full_response_content, response,
                   tracking>>

\* A block that takes the Lock and leaves without releasing it.
lock_kept_after_with(w) == w

\* history_lock when worker w leaves the `with history_lock:` block of line
\* 93 or of line 132: __exit__ releases it.
lock_after_with(w) == Free

\* Lines 92-122: under the Lock, the snapshot, the system prompt and the
\* conversion; then the user message and the call of llm.stream_chat.
assemble_messages(w) ==
    /\ pc[w] = "assemble"
    /\ history_lock = Free
    /\ LET sid == session_id[w].s
           h == history_of(sid)
           cur == current_history_dicts(h, system_prompt_text[w])
       IN  /\ session_histories' =
                IF sid \in DOMAIN session_histories
                THEN store_put(sid, cur) ELSE session_histories
           /\ sent' = [sent EXCEPT ![w] =
                messages_for_llm(h, system_prompt_text[w], user_prompt_text[w])]
           /\ history_before' = [history_before EXCEPT ![w] = h]
           /\ interference' =
                [(IF cur # h THEN Interfere(sid, w, "write") ELSE interference)
                    EXCEPT ![w] = "none"]
    /\ history_lock' = lock_after_with(w)
    /\ pc' = [pc EXCEPT ![w] = "stream"]
    /\ UNCHANGED <<GROQ_API_KEY, accepted, kind, session_id,
                   payload_prompt, user_prompt_text, system_prompt_text, deltas,
                   full_response_content, events, response, commits>>

\* Lines 125-129: the stream yields one more chunk.
stream_chunk(w) ==
    /\ pc[w] = "stream"
    /\ Len(deltas[w]) < Len(Chunks)
    /\ LET d == Chunks[Len(deltas[w]) + 1]
       IN  /\ deltas' = [deltas EXCEPT ![w] = Append(@, d)]
           /\ full_response_content' = [full_response_content EXCEPT ![w] = accumulate(@, d)]
           /\ events' = [events EXCEPT ![w] = @ \o chunk_events(d)]
    /\ UNCHANGED <<session_histories, history_lock, GROQ_API_KEY, accepted, pc,
                   kind, session_id, payload_prompt, user_prompt_text,
                   system_prompt_text, sent, response, tracking>>

\* An error handler that stores what was received before it reports.
stream_raises_keeps_partial(w) ==
    /\ pc[w] = "stream"
    /\ history_lock = Free
    /\ session_histories' =
            store_put(session_id[w].s,
                      commit_exchange(history_of(session_id[w].s), system_prompt_text[w],
                                      user_prompt_text[w], full_response_content[w]))
    /\ events' = [events EXCEPT ![w] = Append(@, Event("error", ErrLLM, TRUE))]
    /\ pc' = [pc EXCEPT ![w] = "done"]
    /\ UNCHANGED <<history_lock, GROQ_API_KEY, accepted, kind,
                   session_id, chat_locals, response, tracking>>

\* Lines 122-125 raise (llm.stream_chat, or the stream at its next chunk):
\* the handler of lines 156-158.
stream_raises(w) ==
    /\ pc[w] = "stream"
    /\ events' = [events EXCEPT ![w] = Append(@, Event("error", ErrLLM, TRUE))]
    /\ pc' = [pc EXCEPT ![w] = "done"]
    /\ UNCHANGED <<session_histories, history_lock, GROQ_API_KEY, accepted, kind,
                   session_id, chat_locals, response, tracking>>

\* A commit that writes back the list the snapshot copied.
history_at_commit_is_snapshot(w) ==
    current_history_dicts(history_before[w], system_prompt_text[w])

\* session_histories[session_id], the list lines 138-146 read and change.
history_at_commit(w) == session_histories[session_id[w].s]

\* The stream is exhausted: lines 132-146 under the Lock.
persist_messages(w) ==
    /\ pc[w] = "stream"
    /\ Len(deltas[w]) = Len(Chunks)
    /\ history_lock = Free
    /\ LET sid == session_id[w].s
       IN  IF sid \notin DOMAIN session_histories
           THEN \* line 135, called with the Lock held
                /\ history_lock' = w
                /\ pc' = [pc EXCEPT ![w] = "init_in_commit"]
                /\ UNCHANGED <<session_histories, commits, interference>>
           ELSE /\ session_histories' =
                    store_put(sid, commit_exchange(history_at_commit(w),
                              system_prompt_text[w], user_prompt_text[w],
                              full_response_content[w]))
                /\ commits' = [commits EXCEPT ![w] = @ + 1]
                /\ interference' = Interfere(sid, w, "write")
                /\ pc' = [pc EXCEPT ![w] = "final"]
                /\ history_lock' = lock_after_with(w)
    /\ UNCHANGED <<GROQ_API_KEY, accepted, kind, session_id, chat_locals, events,
                   response, history_before>>

\* Lines 153-154: the terminal event of a completed stream.
yield_full_response(w) ==
    /\ pc[w] = "final"
    /\ events' = [events EXCEPT ![w] =
            Append(@, Event("full_response", full_response_content[w], TRUE))]
    /\ pc' = [pc EXCEPT ![w] = "done"]
    /\ UNCHANGED <<session_histories, history_lock, GROQ_API_KEY, accepted, kind,
                   session_id, chat_locals, response, tracking>>

\* The request is over and the thread serves the next one.
request_ends(w) ==
    /\ pc[w] \in {"done", "raised"}
    /\ pc' = [pc EXCEPT ![w] = "idle"]
    /\ kind' = [kind EXCEPT ![w] = "none"]
    /\ session_id' = [session_id EXCEPT ![w] = PyNone]
    /\ payload_prompt' = [payload_prompt EXCEPT ![w] = PyNone]
    /\ user_prompt_text' = [user_prompt_text EXCEPT ![w] = <<>>]
    /\ system_prompt_text' = [system_prompt_text EXCEPT ![w] = <<>>]
    /\ sent' = [sent EXCEPT ![w] = <<>>]
    /\ deltas' = [deltas EXCEPT ![w] = <<>>]
    /\ full_response_content' = [full_response_content EXCEPT ![w] = <<>>]
    /\ events' = [events EXCEPT ![w] = <<>>]
    /\ response' = [response EXCEPT ![w] = NoResponse]
    /\ history_before' = [history_before EXCEPT ![w] = <<>>]
    /\ interference' = [interference EXCEPT ![w] = "none"]
    /\ commits' = [commits EXCEPT ![w] = 0]
    /\ UNCHANGED <<session_histories, history_lock, GROQ_API_KEY, accepted>>

Next ==
    \E w \in Workers :
        \/ create_session_route(w)
        \/ chat_route_post(w)
        \/ clear_backend_history_route(w)
        \/ initialize_session_history(w)
        \/ generator_start(w)
        \/ assemble_messages(w)
        \/ stream_chunk(w)
        \/ stream_raises(w)
        \/ persist_messages(w)
        \/ yield_full_response(w)
        \/ request_ends(w)

Spec == Init /\ [][Next]_vars

\* The scheduler runs every thread that can take a step, and the
\* collaborator's stream ends (normally or by raising).
FairSpec ==
    /\ Spec
    /\ \A w \in Workers :
        /\ WF_vars(initialize_session_history(w))
        /\ WF_vars(generator_start(w))
        /\ WF_vars(assemble_messages(w))
        /\ WF_vars(stream_raises(w) \/ persist_messages(w))
        /\ WF_vars(yield_full_response(w))

\* ------------------------------------------------------------- properties
IsChat(w) == kind[w] = "chat"

\* The request took its snapshot (the list sent always ends with the user
\* message).
TookSnapshot(w) == IsChat(w) /\ sent[w] # <<>>

FinalCount(ev) == Cardinality({i \in 1..Len(ev) : ev[i].is_final})

LastKey(ev) == IF ev = <<>> THEN "none" ELSE ev[Len(ev)].key

SystemCount(h) == Cardinality({i \in 1..Len(h) : h[i].role = SYSTEM})

NonSystemCount(h) == Cardinality({i \in 1..Len(h) : h[i].role # SYSTEM})

RECURSIVE Concat(_)
Concat(ds) == IF ds = <<>> THEN <<>> ELSE Head(ds) \o Concat(Tail(ds))

IsText(d) == d # <<>>

\* The request's stream raised: the handler of line 156 ran after the
\* snapshot.
StreamFailed(w) == TookSnapshot(w) /\ pc[w] = "done" /\ LastKey(events[w]) = "error"

\* C1: when the collaborator's stream raises and nothing else touched the
\* session since the request's snapshot, the stored transcript equals the
\* transcript before the request, whatever the system_prompt.
C1_FailedStreamLeavesTranscript ==
    \A w \in Workers :
        StreamFailed(w) /\ interference[w] = "none"
            => session_histories[session_id[w].s] = history_before[w]

\* C2: every chat request yields exactly one event with is_final = TRUE, and
\* it is the last event.
C2_ExactlyOneTerminalEvent ==
    \A w \in Workers :
        IsChat(w) =>
            /\ \A i \in 1..Len(events[w]) : events[w][i].is_final => i = Len(events[w])
            /\ pc[w] \in {"done", "raised"} => FinalCount(events[w]) = 1

\* A clear-history call took the Lock for a session id the store does not hold.
ClearOfUnknown(w) == kind[w] = "clear" /\ pc[w] = "init"

\* C3: a clear-history call for an unknown, non-empty session id ends: the
\* Lock is released, the session is stored with an empty transcript and the
\* response is a success.
C3_ClearOfUnknownTerminates ==
    \A w \in Workers :
        ClearOfUnknown(w) ~>
            /\ pc[w] = "done"
            /\ history_lock # w
            /\ session_id[w].s \in DOMAIN session_histories
            /\ session_histories[session_id[w].s] = <<>>
            /\ response[w] = Success

\* C4: every stored transcript holds at most one system message, and only at
\* index 0.
C4_SystemOnlyAtHead ==
    \A sid \in DOMAIN session_histories :
        \A i \in 1..Len(session_histories[sid]) :
            session_histories[sid][i].role = SYSTEM => i = 1

\* Two chat requests on one session with different system prompts, one
\* committed while the other streams, over a transcript that already held a
\* system message.
C4_Witness ==
    \E w, v \in Workers :
        /\ w # v
        /\ TookSnapshot(w) /\ TookSnapshot(v)
        /\ session_id[w] = session_id[v]
        /\ system_prompt_text[w] # <<>> /\ system_prompt_text[v] # <<>>
        /\ system_prompt_text[w] # system_prompt_text[v]
        /\ pc[w] = "final" /\ pc[v] = "stream"
        /\ HasSystemHead(history_before[w])
        /\ SystemCount(session_histories[session_id[w].s]) = 1

\* The step is the commit of worker w's request.
CommitStep(w) == pc[w] = "stream" /\ pc'[w] = "final"

\* [system message, if a system_prompt was supplied; user; assistant]
FreshExchange(w) ==
    (IF system_prompt_text[w] # <<>> THEN <<Msg(SYSTEM, system_prompt_text[w])>> ELSE <<>>)
        \o <<Msg(USER, user_prompt_text[w]), Msg(ASSISTANT, full_response_content[w])>>

\* C5, as stated: when the session was cleared between a request's snapshot
\* and its commit, the transcript right after the commit is exactly the
\* request's own exchange.
C5_CommitAfterClearIsOwnExchange ==
    [][\A w \in Workers :
        CommitStep(w) /\ interference[w] \in {"cleared", "cleared_then_other"}
            => session_histories'[session_id[w].s] = FreshExchange(w)]_vars

\* C5, amended: when the session was cleared between a request's snapshot and
\* its commit and no other request wrote to it after that clear, the
\* transcript right after the commit is exactly the request's own exchange.
C5_CommitAfterLastClearIsOwnExchange ==
    [][\A w \in Workers :
        CommitStep(w) /\ interference[w] = "cleared"
            => session_histories'[session_id[w].s] = FreshExchange(w)]_vars

\* A request committed after a clear that emptied a transcript its snapshot
\* had read messages of.
C5_Witness ==
    \E w \in Workers :
        /\ pc[w] = "final"
        /\ interference[w] = "cleared"
        /\ history_before[w] # <<>>
        /\ session_histories[session_id[w].s] = FreshExchange(w)

\* C6: a chat request commits at most once; it has committed when it yields
\* full_response and it ends with full_response exactly when it committed;
\* user and assistant messages enter a transcript only in pairs, by the commit
\* of a request.
C6_CommitIffSuccess ==
    /\ [](\A w \in Workers :
            IsChat(w) =>
                /\ commits[w] <= 1
                /\ LastKey(events[w]) = "full_response" => commits[w] = 1
                /\ LastKey(events[w]) = "error" => commits[w] = 0
                /\ pc[w] \in {"done", "raised"} =>
                        (commits[w] = 1 <=> LastKey(events[w]) = "full_response"))
    /\ [][\A sid \in DOMAIN session_histories' :
            NonSystemCount(session_histories'[sid]) > NonSystemCount(history_of(sid))
                => /\ NonSystemCount(session_histories'[sid]) = NonSystemCount(history_of(sid)) + 2
                   /\ \E w \in Workers :
                        /\ CommitStep(w)
                        /\ session_id[w].s = sid
                        /\ commits'[w] = commits[w] + 1]_vars

\* One request ended with an error after chunks were yielded, another with
\* full_response.
C6_Witness ==
    \E w, v \in Workers :
        /\ StreamFailed(w) /\ Len(events[w]) > 1 /\ commits[w] = 0
        /\ IsChat(v) /\ pc[v] = "done" /\ LastKey(events[v]) = "full_response"
        /\ commits[v] = 1

\* The snapshot of w's request read a system message other than the
\* non-empty system_prompt supplied.
SystemPromptChanged(w) ==
    /\ TookSnapshot(w)
    /\ system_prompt_text[w] # <<>>
    /\ HasSystemHead(history_before[w])
    /\ history_before[w][1].content # system_prompt_text[w]

\* C7: over a transcript headed by system message A, a request with
\* system_prompt B # A sends exactly one system message, first, with content
\* B, and its commit leaves exactly one system message, first, with content B.
C7_SystemPromptReplaced ==
    /\ [](\A w \in Workers :
            SystemPromptChanged(w) =>
                /\ sent[w][1] = Msg(SYSTEM, system_prompt_text[w])
                /\ SystemCount(sent[w]) = 1)
    /\ [][\A w \in Workers :
            SystemPromptChanged(w) /\ CommitStep(w) =>
                /\ session_histories'[session_id[w].s][1] = Msg(SYSTEM, system_prompt_text[w])
                /\ SystemCount(session_histories'[session_id[w].s]) = 1]_vars

\* A request that replaced system message A by B has committed.
C7_Witness ==
    \E w \in Workers :
        /\ SystemPromptChanged(w)
        /\ pc[w] = "done"
        /\ commits[w] = 1
        /\ history_before[w][1].content = <<"A">>
        /\ system_prompt_text[w] = <<"B">>

\* The request ran alone on a session whose transcript was empty.
AloneOnFreshSession(w) ==
    /\ TookSnapshot(w)
    /\ history_before[w] = <<>>
    /\ interference[w] = "none"

\* C8: a successful request on a fresh session with prompt p, system_prompt s
\* and deltas d1..dn ends with full_response = d1..dn concatenated, and leaves
\* the transcript [system: s, user: p, assistant: d1..dn concatenated].
C8_EndToEnd ==
    \A w \in Workers :
        /\ IsChat(w) /\ LastKey(events[w]) = "full_response"
            => events[w][Len(events[w])].text = Concat(deltas[w])
        /\ AloneOnFreshSession(w) /\ system_prompt_text[w] # <<>> /\ commits[w] = 1
            => session_histories[session_id[w].s] =
                    <<Msg(SYSTEM, system_prompt_text[w]),
                      Msg(USER, user_prompt_text[w]),
                      Msg(ASSISTANT, Concat(deltas[w]))>>

\* The scenario of the specification: deltas "Hel" and "lo" (and a chunk
\* without text between them) on a fresh session.
C8_Witness ==
    \E w \in Workers :
        /\ AloneOnFreshSession(w) /\ system_prompt_text[w] # <<>>
        /\ pc[w] = "done" /\ commits[w] = 1
        /\ deltas[w] = Chunks
        /\ events[w][Len(events[w])] = Event("full_response", <<"Hel", "lo">>, TRUE)

\* The texts of the non-final events, in order.
ChunkTexts(ev) ==
    LET nf == SelectSeq(ev, LAMBDA e : ~e.is_final)
    IN  [i \in 1..Len(nf) |-> nf[i].text]

AllChunkEvents(ev) ==
    \A i \in 1..Len(ev) : ~ev[i].is_final => ev[i].key = "text_chunk"

FinalIsLast(ev) ==
    \A i \in 1..Len(ev) : ev[i].is_final => i = Len(ev)

\* C9, as stated: the non-final events are the deltas received, one event
\* per delta, in order, before the terminal event.
C9_OneEventPerDelta ==
    \A w \in Workers :
        IsChat(w) =>
            /\ ChunkTexts(events[w]) = deltas[w]
            /\ AllChunkEvents(events[w])
            /\ FinalIsLast(events[w])

\* C9, amended: the non-final events are the non-empty deltas received, one
\* event per non-empty delta, in order, before the terminal event; a delta
\* without text yields no event.
C9_OneEventPerTextDelta ==
    \A w \in Workers :
        IsChat(w) =>
            /\ ChunkTexts(events[w]) = SelectSeq(deltas[w], IsText)
            /\ AllChunkEvents(events[w])
            /\ FinalIsLast(events[w])

\* A request received three chunks, one of them without text, and ended.
C9_Witness ==
    \E w \in Workers :
        /\ IsChat(w) /\ pc[w] = "done"
        /\ Len(deltas[w]) = 3 /\ \E i \in 1..3 : deltas[w][i] = <<>>
        /\ Len(events[w]) = 3
        /\ events[w][3].is_final

\* C10: a commit lengthens the transcript by 2, and by 1 more exactly when it
\* inserts a system message into a transcript that has none; a transcript
\* loses its system message only by becoming empty (a clear), so between
\* clears one commit at most adds 3.
C10_LengthGrowth ==
    [][/\ \A w \in Workers :
            CommitStep(w) =>
                LET h == history_of(session_id[w].s)
                    h2 == session_histories'[session_id[w].s]
                IN  Len(h2) = Len(h) + 2 +
                        (IF SystemCount(h) = 0 /\ system_prompt_text[w] # <<>> THEN 1 ELSE 0)
       /\ \A sid \in DOMAIN session_histories :
            SystemCount(session_histories'[sid]) < SystemCount(session_histories[sid])
                => session_histories'[sid] = <<>>]_vars

\* A second commit on a session, with no clear since the first, replaced the
\* system message and added two messages.
C10_Witness ==
    \E w \in Workers :
        /\ SystemPromptChanged(w)
        /\ pc[w] = "final"
        /\ interference[w] = "none"
        /\ Len(history_before[w]) = 3
        /\ Len(session_histories[session_id[w].s]) = 5

\* The step is a clear-history call on a session the store holds.
ClearStep(w) ==
    /\ pc[w] = "idle" /\ pc'[w] = "done"
    /\ kind'[w] = "clear" /\ response'[w] = Success

\* C11: a clear-history call on a stored session leaves it stored with an
\* empty transcript and every other session as it was; a second call right
\* after it changes nothing in the store.
C11_ClearIsIdempotent ==
    [][\A w \in Workers :
        ClearStep(w) =>
            LET sid == session_id'[w].s
            IN  /\ sid \in DOMAIN session_histories
                /\ DOMAIN session_histories' = DOMAIN session_histories
                /\ session_histories'[sid] = <<>>
                /\ \A k \in DOMAIN session_histories \ {sid} :
                        session_histories'[k] = session_histories[k]
                /\ session_histories[sid] = <<>> => session_histories' = session_histories]_vars

\* Two clear-history calls on one stored session have both returned.
C11_Witness ==
    \E w, v \in Workers :
        /\ w # v
        /\ kind[w] = "clear" /\ kind[v] = "clear"
        /\ pc[w] = "done" /\ pc[v] = "done"
        /\ response[w] = Success /\ response[v] = Success
        /\ session_id[w] = session_id[v]
        /\ session_histories[session_id[w].s] = <<>>

\* The request lacks a session_id, a prompt or the credential.
FailsValidation(w) ==
    \/ ~Truthy(session_id[w])
    \/ ~Truthy(payload_prompt[w])
    \/ ~GROQ_API_KEY

\* The message of the first failing check: session_id, prompt, credential.
ValidationError(w) ==
    IF ~Truthy(session_id[w]) THEN ErrSession
    ELSE IF ~Truthy(payload_prompt[w]) THEN ErrPrompt
    ELSE ErrKey

\* C12: a chat request without session_id, without prompt or without a
\* configured credential yields exactly one event, the terminal error of the
\* first failing check; it never calls the collaborator, and no step of it
\* changes a stored transcript.
C12_ValidationFailureIsOneErrorEvent ==
    /\ [](\A w \in Workers :
            IsChat(w) /\ pc[w] \in {"done", "raised"} /\ FailsValidation(w) =>
                /\ events[w] = <<Event("error", ValidationError(w), TRUE)>>
                /\ sent[w] = <<>>
                /\ deltas[w] = <<>>)
    /\ [][\A w \in Workers :
            kind'[w] = "chat" /\ pc'[w] # pc[w] /\ pc'[w] \in {"init", "gen", "done", "raised"}
                => \A k \in DOMAIN session_histories :
                        session_histories'[k] = session_histories[k]]_vars

\* C13: a chat request that does not succeed ends with exactly one terminal
\* error event, never with an exception that leaves the generator, also when
\* reading temperature or system_prompt fails.
C13_EveryFailureIsATerminalEvent ==
    \A w \in Workers :
        IsChat(w) =>
            /\ pc[w] # "raised"
            /\ pc[w] = "done" /\ LastKey(events[w]) # "full_response" =>
                    /\ FinalCount(events[w]) = 1
                    /\ LastKey(events[w]) = "error"

\* C14: no step removes a session id from the store; a clear-history call
\* keeps the id and stores an empty transcript under it.
C14_SessionsNeverRemoved ==
    [][/\ DOMAIN session_histories \subseteq DOMAIN session_histories'
       /\ \A w \in Workers :
            ClearStep(w) => session_histories'[session_id'[w].s] = <<>>]_vars

\* The store holds two sessions, and a clear-history call on one of them has
\* returned while a chat request on it was streaming.
C14_Witness ==
    \E w, v \in Workers :
        /\ kind[w] = "clear" /\ pc[w] = "done" /\ response[w] = Success
        /\ Cardinality(DOMAIN session_histories) = 2
        /\ session_histories[session_id[w].s] = <<>>
        /\ TookSnapshot(v) /\ session_id[v] = session_id[w]
        /\ interference[v] = "cleared"

\* C15: a chat request never holds the Lock while it waits for a chunk of
\* the collaborator or is suspended at a yield: the Lock is taken for the
\* snapshot and for the commit, and released at the end of each.
C15_NoLockWhileStreaming ==
    \A w \in Workers :
        IsChat(w) /\ pc[w] \in {"stream", "final", "done", "raised"} => history_lock # w

\* A chat request is suspended after a text_chunk event, and another request
\* took the Lock (to clear the session) since its snapshot.
C15_Witness ==
    \E w \in Workers :
        /\ IsChat(w) /\ pc[w] = "stream"
        /\ events[w] # <<>>
        /\ interference[w] = "cleared"
        /\ history_lock = Free

\* The messages of h that are not system messages, in order.
NonSystem(h) == SelectSeq(h, LAMBDA m : m.role # SYSTEM)

\* C16: the list sent to the collaborator is the snapshot followed by the
\* new user message when no system_prompt is supplied or it equals the
\* snapshot's system content; otherwise one system message with the supplied
\* content, the snapshot's non-system messages in order, and the new user
\* message.
C16_OutgoingList ==
    \A w \in Workers :
        TookSnapshot(w) =>
            LET h == history_before[w]
                sp == system_prompt_text[w]
                user == <<Msg(USER, user_prompt_text[w])>>
            IN  sent[w] =
                    IF sp = <<>> \/ (HasSystemHead(h) /\ h[1].content = sp)
                    THEN h \o user
                    ELSE <<Msg(SYSTEM, sp)>> \o NonSystem(h) \o user

\* A request with a system_prompt read a snapshot that holds an exchange and
\* no system message, and sent the system message, the exchange and the new
\* user message.
C16_Witness ==
    \E w \in Workers :
        /\ TookSnapshot(w)
        /\ system_prompt_text[w] # <<>>
        /\ history_before[w] # <<>>
        /\ ~HasSystemHead(history_before[w])
        /\ Len(sent[w]) = Len(history_before[w]) + 2

\* C17: between its snapshot and its own commit a chat request changes
\* nothing in the stored transcript: while it streams, and no other request
\* has committed to or cleared its session, the stored transcript is the one
\* it read.
C17_SnapshotLeavesStore ==
    \A w \in Workers :
        /\ TookSnapshot(w)
        /\ pc[w] = "stream"
        /\ interference[w] = "none"
        => session_histories[session_id[w].s] = history_before[w]

\* The messages of h that are not system messages are user, assistant, user,
\* assistant, ...: they start with a user message and end with an assistant
\* message.
Alternates(h) ==
    LET ns == NonSystem(h)
    IN  /\ Len(ns) % 2 = 0
        /\ \A i \in 1..Len(ns) :
               ns[i].role = IF i % 2 = 1 THEN USER ELSE ASSISTANT

\* The commit of w puts w's prompt and w's response, adjacent and in this
\* order, at the end of the transcript that was stored when it committed, of
\* which it drops no non-system message.
CommitsOwnPair(w) ==
    LET sid == session_id[w].s
        old == NonSystem(session_histories[sid])
        new == NonSystem(session_histories'[sid])
    IN  new = old \o <<Msg(USER, user_prompt_text[w]),
                       Msg(ASSISTANT, full_response_content[w])>>

\* C18: in every reachable state the non-system messages of every stored
\* transcript strictly alternate user, assistant, and every commit, whatever
\* other requests did to the session since its snapshot, appends the
\* request's own user message immediately followed by its own response.
C18_ExchangesStayPaired ==
    /\ [](\A sid \in DOMAIN session_histories : Alternates(session_histories[sid]))
    /\ [][\A w \in Workers : CommitStep(w) => CommitsOwnPair(w)]_vars

\* A request committed after another request committed to the same session
\* between its snapshot and its commit: the transcript holds both exchanges.
C18_Witness ==
    \E w \in Workers :
        /\ TookSnapshot(w)
        /\ pc[w] = "final"
        /\ interference[w] = "other"
        /\ Len(NonSystem(session_histories[session_id[w].s])) >= 4

\* C19: under fair scheduling no chat request waits forever for the Lock,
\* whatever create-session, clear-history and chat requests run beside it:
\* every chat request eventually ends its event stream, with its terminal
\* event or, at the least, with an exception of lines 68-69.
C19_ChatEventuallyEnds ==
    \A w \in Workers :
        IsChat(w) ~> (IsChat(w) /\ (FinalCount(events[w]) = 1 \/ pc[w] = "raised"))

====
